---- MODULE Spec2Model ----
(***************************************************************************)
(* Model of exercises/project2/project2_ex1_fbx_tiktok.py: the camera      *)
(* auto-tracking routine setup_camera_tracking (with its caller, the       *)
(* `create` command) and the `import-pointcloud` command.                  *)
(*                                                                         *)
(* Lengths are fixed-point integers in tenths of a scene unit, so that     *)
(* CAMERA_DISTANCE = 2.5 is 25 and CAMERA_HEIGHT_OFFSET = 1.5 is 15; the   *)
(* arithmetic of the routine (one subtraction, one addition per axis) is   *)
(* exact on these values.  Rounding of binary floating point is not        *)
(* modelled.                                                               *)
(*                                                                         *)
(* Optional values (Python None) are sequences of length 0 or 1.           *)
(***************************************************************************)
EXTENDS Integers, Sequences, FiniteSets, TLC

VARIABLES
    entry,            \* "direct" (setup_camera_tracking called), "create", "pointcloud"
    pc,               \* position in the running command
    outcome,          \* "running", "ok", "exit1" (typer.Exit(code=1)), "error" (uncaught exception)
    \* ---- inputs of setup_camera_tracking / create
    frame_start,
    frame_end,
    fbx_exists,       \* create: fbx_path.exists()
    imported_objects, \* create: types of the objects the FBX import adds
    bone,             \* create: the --bone option (a string)
    target,           \* [type, pose_bones] wrapped as an option
    bone_name,        \* Optional[str]
    animation,        \* the host's animation of the target: a function of the frame
    \* ---- host state touched by setup_camera_tracking
    scene_frame,      \* bpy.context.scene.frame_current
    camera,           \* [location, rotation_euler, animation_data] wrapped as an option
    camera_before,    \* the camera as it was handed to setup_camera_tracking
    \* ---- locals of setup_camera_tracking
    frame,            \* loop variable, unbound before the first iteration
    target_loc,
    direction,
    reported,         \* the N of the final "Baked N keyframes" message
    \* ---- history of the run
    last_op,          \* the last host operation the routine performed, and how many so far
    n_frame_set,      \* number of scene.frame_set calls
    n_inserts,        \* number of keyframe_insert calls
    \* ---- import-pointcloud
    pointcloud,       \* --pointcloud given
    pointcloud_dir,   \* --pointcloud-dir given
    ply_files,        \* per file: does it exist on disk
    rotation,         \* Optional[list[float]]: its length, wrapped
    bounding_box,     \* Optional[list[float]]: its length, wrapped
    blend,            \* radiancefield.blend: "missing", "nogroup", "ok"
    i,                \* index of the file being processed
    imported,         \* objects returned by import_ply for the current file
    bbox,             \* local `bbox`: unbound (<<>>) or bound
    scene_modified,   \* an object of the scene was renamed / rotated / given a modifier
    saved,            \* save_blend_file was called
    failed_at         \* where the command stopped abnormally

trackVars == <<frame_start, frame_end, fbx_exists, imported_objects, bone, target,
               bone_name, animation, scene_frame, camera, camera_before, frame,
               target_loc, direction, reported, last_op, n_frame_set, n_inserts>>
cloudVars == <<pointcloud, pointcloud_dir, ply_files, rotation, bounding_box, blend,
               i, imported, bbox, scene_modified, saved, failed_at>>
vars == <<entry, pc, outcome, trackVars, cloudVars>>

-----------------------------------------------------------------------------
(* Bounds of the model *)
MaxStart == 6       \* frame_start ranges over 0..MaxStart
MaxFrame == 11      \* frame_end ranges over 0..MaxFrame
MaxFiles == 2       \* number of .ply files
MaxArity == 4       \* length of a --rotation / --bounding-box list

(* Program constants *)
FRAME_STEP == 5
CAMERA_DISTANCE == 25
CAMERA_HEIGHT_OFFSET == 15
DefaultFrameStart == 1
DefaultFrameEnd == 250
TARGET_BONE_NAME == "mixamorig:Hips"

None == <<>>
Some(x) == <<x>>
Val(o) == o[1]

-----------------------------------------------------------------------------
(* Host animation: world transform of the target and pose of its bones *)

Vec(x, y, z) == <<x, y, z>>
VAdd(a, b) == <<a[1] + b[1], a[2] + b[2], a[3] + b[3]>>
VScale(k, a) == <<k * a[1], k * a[2], k * a[3]>>

\* 3x3 matrix (rows) times vector
MatVec(m, v) == << m[1][1] * v[1] + m[1][2] * v[2] + m[1][3] * v[3],
                   m[2][1] * v[1] + m[2][2] * v[2] + m[2][3] * v[3],
                   m[3][1] * v[1] + m[3][2] * v[2] + m[3][3] * v[3] >>

Identity3 == << <<1, 0, 0>>, <<0, 1, 0>>, <<0, 0, 1>> >>
RotZ90 == << <<0, -1, 0>>, <<1, 0, 0>>, <<0, 0, 1>> >>

Positions == { Vec(0, 0, 0), Vec(10, -20, 5), Vec(-7, 25, -15) }
Velocities == { Vec(0, 0, 0), Vec(1, 2, -1) }
Rotations == { Identity3, RotZ90 }
BoneTranslations == { Vec(3, -4, 9) }

Animations == [ origin : Positions, velocity : Velocities,
                rot : Rotations, bone_head : BoneTranslations ]

\* target.matrix_world.translation once the scene is at frame f
WorldTranslation(a, f) == VAdd(a.origin, VScale(f, a.velocity))

\* (armature.matrix_world @ bone.matrix).translation once the scene is at frame f
BoneWorldTranslation(a, f) == VAdd(MatVec(a.rot, a.bone_head), WorldTranslation(a, f))

-----------------------------------------------------------------------------
(* Scene objects *)

Armature(bones) == [type |-> "ARMATURE", pose_bones |-> bones]
Mesh == [type |-> "MESH", pose_bones |-> {}]
Empty == [type |-> "EMPTY", pose_bones |-> {}]

Targets == { Armature({TARGET_BONE_NAME}), Armature({}), Mesh }
BoneNames == { None, Some(""), Some(TARGET_BONE_NAME) }

\* What an FBX import may add to bpy.data.objects, in the (arbitrary) order of
\* list(objects_after - objects_before)
ImportedObjectLists == { <<>>, <<Mesh>>, <<Mesh, Armature({TARGET_BONE_NAME})>>,
                         <<Armature({})>>, <<Empty, Mesh>> }

NoRotation == [track |-> "none", up |-> "none", dir |-> Vec(0, 0, 0)]

\* Animation data a camera can carry before the routine runs
PriorAnimationData == [ location |-> { <<3, Vec(9, 9, 9)>>, <<5, Vec(1, 1, 1)>> },
                        rotation_euler |-> { <<3, NoRotation>> } ]

NewCamera == [ location |-> Vec(0, 0, 0), rotation_euler |-> NoRotation,
               animation_data |-> None ]

Cameras == { NewCamera, [NewCamera EXCEPT !.animation_data = Some(PriorAnimationData)] }

\* find_armature: the first imported object of type ARMATURE, if any
RECURSIVE find_armature(_)
find_armature(objs) ==
    IF objs = <<>> THEN None
    ELSE IF Head(objs).type = "ARMATURE" THEN Some(Head(objs))
    ELSE find_armature(Tail(objs))

-----------------------------------------------------------------------------
(* setup_camera_tracking: the pure parts *)

\* Python truthiness of an Optional[str]
Truthy(name) == name # None /\ Val(name) # ""

\* Mutant of get_target_world_location: no fallback to the armature origin
get_target_world_location_NoFallback(armature, name, a, f) ==
    BoneWorldTranslation(a, f)

\* get_target_world_location, evaluated with the scene at frame f
get_target_world_location(armature, name, a, f) ==
    IF name \in armature.pose_bones
    THEN BoneWorldTranslation(a, f)
    ELSE WorldTranslation(a, f)

\* lines 219-223: the target location read with the scene at frame f
TargetLocation(tgt, name, a, f) ==
    IF tgt.type = "ARMATURE" /\ Truthy(name)
    THEN get_target_world_location(tgt, Val(name), a, f)
    ELSE WorldTranslation(a, f)

\* Mutant of CameraLocation: the distance is added instead of subtracted
CameraLocation_SignError(t) ==
    Vec(t[1], t[2] + CAMERA_DISTANCE, t[3] + CAMERA_HEIGHT_OFFSET)

\* lines 226-230
CameraLocation(t) == Vec(t[1], t[2] - CAMERA_DISTANCE, t[3] + CAMERA_HEIGHT_OFFSET)

\* Mutant of Direction: the camera location is subtracted from itself
Direction_FromCamera(t, c) == Vec(c[1] - c[1], c[2] - c[2], c[3] - c[3])

\* lines 233-239
Direction(t, c) == Vec(t[1] - c[1], t[2] - c[2], t[3] - c[3])

\* lines 243-244: the orientation aiming local -Z along d with local Y up
TrackRotation(d) == [track |-> "-Z", up |-> "Y", dir |-> d]

\* Mutant of RangeNext: the end of the range is exclusive, range(s, e, STEP)
RangeNext_ExclusiveEnd(cur, s, e) ==
    LET cand == IF cur = None THEN s ELSE Val(cur) + FRAME_STEP
    IN IF cand < e THEN Some(cand) ELSE None

\* Mutant of RangeNext: the end of the range is one too far, range(s, e + 2, STEP)
RangeNext_OffByOne(cur, s, e) ==
    LET cand == IF cur = None THEN s ELSE Val(cur) + FRAME_STEP
    IN IF cand < e + 2 THEN Some(cand) ELSE None

\* Mutant of RangeNext: the body runs once before the range is tested
RangeNext_AtLeastOnce(cur, s, e) ==
    IF cur = None THEN Some(s)
    ELSE IF Val(cur) + FRAME_STEP < e + 1 THEN Some(Val(cur) + FRAME_STEP) ELSE None

\* range(frame_start, frame_end + 1, FRAME_STEP): the value after `cur`, if any
RangeNext(cur, s, e) ==
    LET cand == IF cur = None THEN s ELSE Val(cur) + FRAME_STEP
    IN IF cand < e + 1 THEN Some(cand) ELSE None

\* lines 250-253: the count printed in "Baked N keyframes"
ReportedCount(s, e) == (e - s) \div FRAME_STEP + 1

\* keyframe_insert on one channel: one key per frame, the new value replaces
KeyInsert(keys, f, v) == { k \in keys : k[1] # f } \cup { <<f, v>> }

\* camera.keyframe_insert(data_path, frame): creates animation data on demand
keyframe_insert(cam, path, f) ==
    LET ad == IF cam.animation_data = None
              THEN [location |-> {}, rotation_euler |-> {}]
              ELSE Val(cam.animation_data)
        new == IF path = "location"
               THEN [ad EXCEPT !.location = KeyInsert(@, f, cam.location)]
               ELSE [ad EXCEPT !.rotation_euler = KeyInsert(@, f, cam.rotation_euler)]
    IN [cam EXCEPT !.animation_data = Some(new)]

\* Mutant of animation_data_clear: the old animation data is kept
animation_data_clear_Skipped(cam) == cam

\* lines 210-211
animation_data_clear(cam) ==
    IF cam.animation_data # None THEN [cam EXCEPT !.animation_data = None] ELSE cam

\* Mutant of LoopBody: the target is read before playback is advanced
LoopBody_ReadFirst == << "get_target", "frame_set", "set_location", "set_rotation",
                         "key_location", "key_rotation" >>

\* The statements of the loop body, lines 217-248, in program order
LoopBody == << "frame_set", "get_target", "set_location", "set_rotation",
               "key_location", "key_rotation" >>

\* The statement after p in the loop body; after the last one, the loop head
AfterStmt(p) ==
    LET k == CHOOSE j \in 1..Len(LoopBody) : LoopBody[j] = p
    IN IF k = Len(LoopBody) THEN "loop" ELSE LoopBody[k + 1]

-----------------------------------------------------------------------------
(* Initial states: the inputs of one run of one entry point *)

FrameRanges == ((0..MaxStart) \X (0..MaxFrame)) \cup { <<DefaultFrameStart, DefaultFrameEnd>> }

IdleTrack ==
    /\ frame_start = DefaultFrameStart /\ frame_end = DefaultFrameEnd
    /\ fbx_exists = FALSE /\ imported_objects = <<>> /\ bone = TARGET_BONE_NAME
    /\ target = None /\ bone_name = None
    /\ animation = [origin |-> Vec(0, 0, 0), velocity |-> Vec(0, 0, 0),
                    rot |-> Identity3, bone_head |-> Vec(3, -4, 9)]
    /\ camera = None /\ camera_before = None

IdleCloud ==
    /\ pointcloud = FALSE /\ pointcloud_dir = FALSE /\ ply_files = <<>>
    /\ rotation = None /\ bounding_box = None /\ blend = "ok"

InitLocals ==
    /\ outcome = "running"
    /\ scene_frame = 1
    /\ frame = None /\ target_loc = None /\ direction = None /\ reported = None
    /\ last_op = [n |-> 0, op |-> "none"] /\ n_frame_set = 0 /\ n_inserts = 0
    /\ i = 0 /\ imported = <<>> /\ bbox = None
    /\ scene_modified = FALSE /\ saved = FALSE /\ failed_at = "nowhere"

\* setup_camera_tracking(camera, target, bone_name, frame_start, frame_end)
InitDirect ==
    /\ entry = "direct" /\ pc = "clear"
    /\ \E r \in FrameRanges : frame_start = r[1] /\ frame_end = r[2]
    /\ fbx_exists = FALSE /\ imported_objects = <<>> /\ bone = TARGET_BONE_NAME
    /\ \E t \in Targets : target = Some(t)
    /\ bone_name \in BoneNames
    /\ animation \in Animations
    /\ \E c \in Cameras : camera = Some(c) /\ camera_before = Some(c)
    /\ IdleCloud

\* create FBX_FILE --bone B --start S --end E
InitCreate ==
    /\ entry = "create" /\ pc = "create_import"
    /\ \E r \in FrameRanges : frame_start = r[1] /\ frame_end = r[2]
    /\ fbx_exists \in BOOLEAN
    /\ imported_objects \in ImportedObjectLists
    /\ bone \in { TARGET_BONE_NAME, "" }
    /\ target = None /\ bone_name = None
    /\ animation \in Animations
    /\ camera = None /\ camera_before = None
    /\ IdleCloud

\* import-pointcloud [-p FILE] [-d DIR] [-r X]* [-b X]*
InitCloud ==
    /\ entry = "pointcloud" /\ pc = "cloud_args"
    /\ IdleTrack
    /\ pointcloud \in BOOLEAN
    /\ pointcloud_dir \in BOOLEAN
    /\ ply_files = <<>>
    /\ rotation \in { None } \cup { Some(n) : n \in 1..MaxArity }
    /\ bounding_box \in { None } \cup { Some(n) : n \in 1..MaxArity }
    /\ blend \in { "missing", "nogroup", "ok" }

Init == InitLocals /\ (InitDirect \/ InitCreate \/ InitCloud)

-----------------------------------------------------------------------------
(* create, lines 294-380 *)

Stop(result, where) ==
    /\ pc' = "done" /\ outcome' = result /\ failed_at' = where

\* lines 323-330: reset_scene, ensure_object_mode, import_fbx
CreateImport ==
    /\ pc = "create_import"
    /\ IF ~fbx_exists
       THEN Stop("exit1", "import_fbx")
       ELSE pc' = "create_target" /\ UNCHANGED <<outcome, failed_at>>
    /\ UNCHANGED <<entry, trackVars, pointcloud, pointcloud_dir, ply_files, rotation,
                   bounding_box, blend, i, imported, bbox, scene_modified, saved>>

\* lines 332-349: choose the target and the bone
CreateTarget ==
    /\ pc = "create_target"
    /\ LET armature == find_armature(imported_objects) IN
       IF armature = None
       THEN IF imported_objects = <<>>
            THEN /\ Stop("exit1", "no_objects")
                 /\ UNCHANGED <<target, bone_name>>
            ELSE /\ target' = Some(imported_objects[1])
                 /\ bone_name' = None
                 /\ pc' = "create_camera"
                 /\ UNCHANGED <<outcome, failed_at>>
       ELSE /\ target' = armature
            /\ bone_name' = Some(bone)
            /\ pc' = "create_camera"
            /\ UNCHANGED <<outcome, failed_at>>
    /\ UNCHANGED <<entry, frame_start, frame_end, fbx_exists, imported_objects, bone,
                   animation, camera_before, scene_frame, camera, frame, target_loc, direction,
                   reported, last_op, n_frame_set, n_inserts,
                   pointcloud, pointcloud_dir, ply_files, rotation,
                   bounding_box, blend, i, imported, bbox, scene_modified, saved>>

\* lines 351-361: create the camera and call setup_camera_tracking
CreateCamera ==
    /\ pc = "create_camera"
    /\ camera' = Some(NewCamera)
    /\ camera_before' = Some(NewCamera)
    /\ pc' = "clear"
    /\ UNCHANGED <<entry, outcome, frame_start, frame_end, fbx_exists, imported_objects,
                   bone, target, bone_name, animation, scene_frame, frame, target_loc,
                   direction, reported, last_op, n_frame_set, n_inserts, cloudVars>>

\* lines 363-380: lights, save, summary
CreateSave ==
    /\ pc = "create_save"
    /\ saved' = TRUE
    /\ pc' = "done" /\ outcome' = "ok"
    /\ UNCHANGED <<entry, trackVars, pointcloud, pointcloud_dir, ply_files, rotation,
                   bounding_box, blend, i, imported, bbox, scene_modified, failed_at>>

-----------------------------------------------------------------------------
(* setup_camera_tracking, lines 199-253 *)

\* The next entry of the history of host operations
Op(name) == [n |-> last_op.n + 1, op |-> name]

\* lines 209-211
ClearAnimation ==
    /\ pc = "clear"
    /\ camera' = Some(animation_data_clear(Val(camera)))
    /\ pc' = "loop"
    /\ UNCHANGED <<entry, outcome, frame_start, frame_end, fbx_exists, imported_objects,
                   bone, target, bone_name, animation, camera_before, scene_frame, frame, target_loc,
                   direction, reported, last_op, n_frame_set, n_inserts, cloudVars>>

\* line 216: the loop head takes the next value of the range, or leaves the loop
LoopHead ==
    /\ pc = "loop"
    /\ LET nxt == RangeNext(frame, frame_start, frame_end) IN
       IF nxt # None
       THEN frame' = nxt /\ pc' = LoopBody[1]
       ELSE frame' = frame /\ pc' = "report"
    /\ UNCHANGED <<entry, outcome, frame_start, frame_end, fbx_exists, imported_objects,
                   bone, target, bone_name, animation, camera_before, scene_frame, camera, target_loc,
                   direction, reported, last_op, n_frame_set, n_inserts, cloudVars>>

\* line 217: scene.frame_set(frame)
FrameSet ==
    /\ pc = "frame_set"
    /\ scene_frame' = Val(frame)
    /\ n_frame_set' = n_frame_set + 1
    /\ last_op' = Op("frame_set")
    /\ pc' = AfterStmt("frame_set")
    /\ UNCHANGED <<entry, outcome, frame_start, frame_end, fbx_exists, imported_objects,
                   bone, target, bone_name, animation, camera_before, camera, frame, target_loc,
                   direction, reported, n_inserts, cloudVars>>

\* lines 219-223: the host evaluates the target at its current frame
GetTarget ==
    /\ pc = "get_target"
    /\ target_loc' = Some(TargetLocation(Val(target), bone_name, animation, scene_frame))
    /\ last_op' = Op("read")
    /\ pc' = AfterStmt("get_target")
    /\ UNCHANGED <<entry, outcome, frame_start, frame_end, fbx_exists, imported_objects,
                   bone, target, bone_name, animation, camera_before, scene_frame, camera, frame,
                   direction, reported, n_frame_set, n_inserts, cloudVars>>

\* lines 225-230
SetLocation ==
    /\ pc = "set_location"
    /\ camera' = Some([Val(camera) EXCEPT !.location = CameraLocation(Val(target_loc))])
    /\ last_op' = Op("set_location")
    /\ pc' = AfterStmt("set_location")
    /\ UNCHANGED <<entry, outcome, frame_start, frame_end, fbx_exists, imported_objects,
                   bone, target, bone_name, animation, camera_before, scene_frame, frame, target_loc,
                   direction, reported, n_frame_set, n_inserts, cloudVars>>

\* lines 232-244
SetRotation ==
    /\ pc = "set_rotation"
    /\ LET d == Direction(Val(target_loc), Val(camera).location) IN
       /\ direction' = Some(d)
       /\ camera' = Some([Val(camera) EXCEPT !.rotation_euler = TrackRotation(d)])
    /\ last_op' = Op("set_rotation")
    /\ pc' = AfterStmt("set_rotation")
    /\ UNCHANGED <<entry, outcome, frame_start, frame_end, fbx_exists, imported_objects,
                   bone, target, bone_name, animation, camera_before, scene_frame, frame, target_loc,
                   reported, n_frame_set, n_inserts, cloudVars>>

\* line 247
KeyLocation ==
    /\ pc = "key_location"
    /\ camera' = Some(keyframe_insert(Val(camera), "location", Val(frame)))
    /\ n_inserts' = n_inserts + 1
    /\ last_op' = Op("insert_location")
    /\ pc' = AfterStmt("key_location")
    /\ UNCHANGED <<entry, outcome, frame_start, frame_end, fbx_exists, imported_objects,
                   bone, target, bone_name, animation, camera_before, scene_frame, frame, target_loc,
                   direction, reported, n_frame_set, cloudVars>>

\* line 248
KeyRotation ==
    /\ pc = "key_rotation"
    /\ camera' = Some(keyframe_insert(Val(camera), "rotation_euler", Val(frame)))
    /\ n_inserts' = n_inserts + 1
    /\ last_op' = Op("insert_rotation")
    /\ pc' = AfterStmt("key_rotation")
    /\ UNCHANGED <<entry, outcome, frame_start, frame_end, fbx_exists, imported_objects,
                   bone, target, bone_name, animation, camera_before, scene_frame, frame, target_loc,
                   direction, reported, n_frame_set, cloudVars>>

\* lines 250-253, then the return to the caller
Report ==
    /\ pc = "report"
    /\ reported' = Some(ReportedCount(frame_start, frame_end))
    /\ IF entry = "create"
       THEN pc' = "create_save" /\ outcome' = outcome
       ELSE pc' = "done" /\ outcome' = "ok"
    /\ UNCHANGED <<entry, frame_start, frame_end, fbx_exists, imported_objects,
                   bone, target, bone_name, animation, camera_before, scene_frame, camera, frame,
                   target_loc, direction, last_op, n_frame_set, n_inserts, cloudVars>>

-----------------------------------------------------------------------------
(* import-pointcloud, lines 384-486 *)

\* What one PLY import may add to bpy.data.objects
PlyImports == { <<>>, <<Mesh>>, <<Empty, Mesh>> }

\* lines 420-422
CloudArgs ==
    /\ pc = "cloud_args"
    /\ IF ~pointcloud /\ ~pointcloud_dir
       THEN Stop("exit1", "args")
       ELSE pc' = "cloud_collect" /\ UNCHANGED <<outcome, failed_at>>
    /\ UNCHANGED <<entry, trackVars, pointcloud, pointcloud_dir, ply_files, rotation,
                   bounding_box, blend, i, imported, bbox, scene_modified, saved>>

\* lines 424-433: one named file (which may not exist), or the *.ply of a directory
CloudCollect ==
    /\ pc = "cloud_collect"
    /\ IF pointcloud
       THEN /\ \E exists \in BOOLEAN : ply_files' = <<exists>>
            /\ pc' = "cloud_rotation" /\ UNCHANGED <<outcome, failed_at>>
       ELSE \E n \in 0..MaxFiles :
            /\ ply_files' = [k \in 1..n |-> TRUE]
            /\ IF n = 0
               THEN Stop("exit1", "collect")
               ELSE pc' = "cloud_rotation" /\ UNCHANGED <<outcome, failed_at>>
    /\ UNCHANGED <<entry, trackVars, pointcloud, pointcloud_dir, rotation,
                   bounding_box, blend, i, imported, bbox, scene_modified, saved>>

\* lines 435-443
CloudRotation ==
    /\ pc = "cloud_rotation"
    /\ IF rotation # None /\ Val(rotation) # 3
       THEN Stop("exit1", "rotation")
       ELSE pc' = "cloud_append" /\ UNCHANGED <<outcome, failed_at>>
    /\ UNCHANGED <<entry, trackVars, pointcloud, pointcloud_dir, ply_files, rotation,
                   bounding_box, blend, i, imported, bbox, scene_modified, saved>>

\* lines 445-450: reset_scene, ensure_object_mode, append_radiance_field_node_group
CloudAppend ==
    /\ pc = "cloud_append"
    /\ scene_modified' = TRUE
    /\ IF blend # "ok"
       THEN Stop("exit1", "append")
       ELSE pc' = "cloud_loop" /\ UNCHANGED <<outcome, failed_at>>
    /\ UNCHANGED <<entry, trackVars, pointcloud, pointcloud_dir, ply_files, rotation,
                   bounding_box, blend, i, imported, bbox, saved>>

\* line 452: next file, or leave the loop
CloudLoop ==
    /\ pc = "cloud_loop"
    /\ IF i < Len(ply_files)
       THEN i' = i + 1 /\ pc' = "cloud_import"
       ELSE i' = i /\ pc' = "cloud_save"
    /\ UNCHANGED <<entry, outcome, trackVars, pointcloud, pointcloud_dir, ply_files,
                   rotation, bounding_box, blend, imported, bbox, scene_modified,
                   saved, failed_at>>

\* lines 453-457: import_ply, and `continue` when nothing was imported
CloudImport ==
    /\ pc = "cloud_import"
    /\ IF ~ply_files[i]
       THEN Stop("exit1", "import_ply") /\ UNCHANGED imported
       ELSE /\ \E objs \in PlyImports :
                 /\ imported' = objs
                 /\ pc' = IF objs = <<>> THEN "cloud_loop" ELSE "cloud_name"
            /\ UNCHANGED <<outcome, failed_at>>
    /\ UNCHANGED <<entry, trackVars, pointcloud, pointcloud_dir, ply_files, rotation,
                   bounding_box, blend, i, bbox, scene_modified, saved>>

\* lines 459-467: rename, rotate, attach the geometry-nodes modifier
CloudName ==
    /\ pc = "cloud_name"
    /\ scene_modified' = TRUE
    /\ pc' = "cloud_bbox"
    /\ UNCHANGED <<entry, outcome, trackVars, pointcloud, pointcloud_dir, ply_files,
                   rotation, bounding_box, blend, i, imported, bbox, saved, failed_at>>

\* lines 469-477: the arity check of --bounding-box, then set_bounding_box
CloudBoundingBox ==
    /\ pc = "cloud_bbox"
    /\ IF bounding_box # None
       THEN IF Val(bounding_box) # 3
            THEN Stop("exit1", "bounding_box") /\ UNCHANGED bbox
            ELSE /\ bbox' = Some("given")
                 /\ pc' = "cloud_loop" /\ UNCHANGED <<outcome, failed_at>>
       ELSE /\ bbox' = Some("default")
            /\ pc' = "cloud_loop" /\ UNCHANGED <<outcome, failed_at>>
    /\ UNCHANGED <<entry, trackVars, pointcloud, pointcloud_dir, ply_files, rotation,
                   bounding_box, blend, i, imported, scene_modified, saved>>

\* lines 479-480
CloudSave ==
    /\ pc = "cloud_save"
    /\ saved' = TRUE
    /\ pc' = "cloud_report"
    /\ UNCHANGED <<entry, outcome, trackVars, pointcloud, pointcloud_dir, ply_files,
                   rotation, bounding_box, blend, i, imported, bbox, scene_modified,
                   failed_at>>

\* lines 482-486: the report reads `bbox`, unbound when every file was skipped
CloudReport ==
    /\ pc = "cloud_report"
    /\ IF bbox = None
       THEN Stop("error", "report")
       ELSE pc' = "done" /\ outcome' = "ok" /\ UNCHANGED failed_at
    /\ UNCHANGED <<entry, trackVars, pointcloud, pointcloud_dir, ply_files, rotation,
                   bounding_box, blend, i, imported, bbox, scene_modified, saved>>

-----------------------------------------------------------------------------
Next ==
    \/ CreateImport \/ CreateTarget \/ CreateCamera \/ CreateSave
    \/ ClearAnimation \/ LoopHead \/ FrameSet \/ GetTarget \/ SetLocation
    \/ SetRotation \/ KeyLocation \/ KeyRotation \/ Report
    \/ CloudArgs \/ CloudCollect \/ CloudRotation \/ CloudAppend \/ CloudLoop
    \/ CloudImport \/ CloudName \/ CloudBoundingBox \/ CloudSave \/ CloudReport

Spec == Init /\ [][Next]_vars

-----------------------------------------------------------------------------
(* What the claims speak about *)

\* The keyframes the camera carries on a channel
Keys(cam, channel) ==
    IF cam = None \/ Val(cam).animation_data = None
    THEN {}
    ELSE IF channel = "location"
         THEN Val(Val(cam).animation_data).location
         ELSE Val(Val(cam).animation_data).rotation_euler

KeyFrames(cam, channel) == { k[1] : k \in Keys(cam, channel) }

\* The run is inside setup_camera_tracking, past the clearing of old animation data
Tracking == pc \in { "loop", "frame_set", "get_target", "set_location", "set_rotation",
                     "key_location", "key_rotation", "report" }

\* setup_camera_tracking has returned
Finished == reported # None

\* The frames of the closed range [frame_start, frame_end] sampled every FRAME_STEP
Sampled == { f \in frame_start..frame_end : (f - frame_start) % FRAME_STEP = 0 }

\* The target has no resolvable bone position
NoBone == \/ Val(target).type # "ARMATURE"
          \/ bone_name = None
          \/ Val(bone_name) = ""
          \/ Val(bone_name) \notin Val(target).pose_bones

-----------------------------------------------------------------------------
\* C1: every location keyframe the routine bakes at a frame f holds
\* (T.x, T.y - CAMERA_DISTANCE, T.z + CAMERA_HEIGHT_OFFSET), T being the target's
\* world position at frame f; for T = (0,0,0) that is (0, -2.5, 1.5).
C1_CameraPosition ==
    (Tracking \/ Finished) =>
        \A k \in Keys(camera, "location") :
            LET T == TargetLocation(Val(target), bone_name, animation, k[1]) IN
            /\ k[2][1] = T[1]
            /\ k[2][2] = T[2] - CAMERA_DISTANCE
            /\ k[2][3] = T[3] + CAMERA_HEIGHT_OFFSET
            /\ (T = <<0, 0, 0>> => k[2] = <<0, -25, 15>>)

C1_Witness ==
    /\ Finished
    /\ <<0, 0, 0>> \in Positions /\ animation.origin = <<0, 0, 0>>
    /\ \E k \in Keys(camera, "location") : k[2] = <<0, -25, 15>>
    /\ \E k \in Keys(camera, "location") : k[2] # <<0, -25, 15>>

\* C2: when the routine has finished on a range with frame_start <= frame_end,
\* keyframes sit at exactly floor((frame_end - frame_start) / FRAME_STEP) + 1
\* distinct frames; for [1, 250] that is 50.
C2_KeyframeCount ==
    (Finished /\ frame_start <= frame_end) =>
        /\ Cardinality(KeyFrames(camera, "location")
                         \cup KeyFrames(camera, "rotation_euler"))
             = (frame_end - frame_start) \div FRAME_STEP + 1
        /\ (frame_start = 1 /\ frame_end = 250 =>
               Cardinality(KeyFrames(camera, "location")) = 50)

C2_Witness ==
    /\ Finished /\ frame_start = 1 /\ frame_end = 250
    /\ Cardinality(KeyFrames(camera, "location")) = 50

\* C3: called with frame_end < frame_start the routine finishes normally, the
\* camera has no keyframe afterwards, the playback frame was never advanced and
\* no keyframe was inserted.
C3_EmptyRange ==
    (Finished /\ frame_end < frame_start) =>
        /\ outcome \in { "running", "ok" }
        /\ (pc = "done" => outcome = "ok")
        /\ Keys(camera, "location") = {} /\ Keys(camera, "rotation_euler") = {}
        /\ n_frame_set = 0 /\ scene_frame = 1
        /\ n_inserts = 0

C3_Witness ==
    /\ pc = "done" /\ outcome = "ok" /\ Finished /\ frame_end < frame_start
    /\ Val(camera_before).animation_data # None

\* C4 as stated: a run given an invalid frame range (frame_end < frame_start)
\* ends in an error outcome without a keyframe having been inserted.
C4_Original ==
    (entry \in { "direct", "create" } /\ frame_end < frame_start /\ pc = "done") =>
        /\ outcome # "ok"
        /\ n_inserts = 0

\* C4 amended: a frame range with frame_end < frame_start is not rejected.  No
\* step of such a run raises an error or inserts a keyframe, the routine returns
\* normally, and the only change to the camera's animation store is that the
\* animation data it had before the call is removed.
C4_NoRejection ==
    [][ (entry \in { "direct", "create" } /\ frame_end < frame_start) =>
            /\ outcome' # "error"
            /\ n_inserts' = n_inserts
            /\ (pc \in { "loop", "report" } => outcome' \in { "running", "ok" })
            /\ (camera # None =>
                  Val(camera').animation_data \in { None, Val(camera).animation_data })
      ]_vars

C4_Witness ==
    /\ entry = "create" /\ frame_end < frame_start
    /\ pc = "done" /\ outcome = "ok" /\ Finished /\ n_inserts = 0

\* C5: when the target has no resolvable bone position the routine does not
\* fail: at every sampled frame T is the target object's own world origin, and
\* the full set of keyframes of the range is baked.
C5_FallbackToOrigin ==
    ((Tracking \/ Finished) /\ NoBone) =>
        /\ outcome # "error"
        /\ (pc \in { "set_location", "set_rotation", "key_location", "key_rotation" } =>
               Val(target_loc) = VAdd(animation.origin, VScale(Val(frame), animation.velocity)))
        /\ \A k \in Keys(camera, "location") :
               k[2] = VAdd(VAdd(animation.origin, VScale(k[1], animation.velocity)),
                           <<0, -CAMERA_DISTANCE, CAMERA_HEIGHT_OFFSET>>)
        /\ (Finished => /\ KeyFrames(camera, "location") = Sampled
                        /\ KeyFrames(camera, "rotation_euler") = Sampled)

C5_Witness ==
    /\ Finished /\ pc = "done" /\ outcome = "ok"
    /\ Val(target).type = "ARMATURE" /\ Val(target).pose_bones = {}
    /\ bone_name = Some(TARGET_BONE_NAME)
    /\ Cardinality(KeyFrames(camera, "location")) >= 2

\* C6: with CAMERA_DISTANCE > 0, the look direction T - C computed at a baked
\* frame is never the zero vector.
C6_DirectionNonZero ==
    CAMERA_DISTANCE > 0 =>
        /\ (direction # None => Val(direction) # <<0, 0, 0>>)
        /\ ((Tracking \/ Finished) =>
               \A k \in Keys(camera, "rotation_euler") : k[2].dir # <<0, 0, 0>>)

C6_Witness ==
    /\ Finished /\ direction # None
    /\ Val(target_loc) # <<0, 0, 0>>
    /\ Keys(camera, "rotation_euler") # {}

\* C7: sampled frames are processed in strictly increasing order, and within a
\* frame the host operations follow the order frame_set, read of the target,
\* camera location, camera rotation, location keyframe, rotation keyframe; the
\* target is read only with the host at the loop's frame, and both keyframes of
\* a frame are inserted before playback is advanced to the next one.
C7_Order ==
    [][ /\ (frame # None /\ frame' # frame => Val(frame') > Val(frame))
        /\ (last_op'.n # last_op.n =>
              /\ (last_op'.op = "frame_set" =>
                    /\ last_op.op \in { "none", "insert_rotation" }
                    /\ scene_frame' = Val(frame)
                    /\ n_inserts = 2 * n_frame_set
                    /\ KeyFrames(camera, "location") = { f \in Sampled : f < Val(frame) }
                    /\ KeyFrames(camera, "rotation_euler") = { f \in Sampled : f < Val(frame) })
              /\ (last_op'.op = "read" =>
                    last_op.op = "frame_set" /\ scene_frame = Val(frame))
              /\ (last_op'.op = "set_location" => last_op.op = "read")
              /\ (last_op'.op = "set_rotation" => last_op.op = "set_location")
              /\ (last_op'.op = "insert_location" =>
                    last_op.op = "set_rotation" /\ scene_frame = Val(frame))
              /\ (last_op'.op = "insert_rotation" =>
                    last_op.op = "insert_location" /\ scene_frame = Val(frame)))
      ]_vars

C7_Witness ==
    /\ Finished /\ n_frame_set >= 3 /\ n_inserts = 2 * n_frame_set
    /\ scene_frame = Val(frame) /\ last_op.op = "insert_rotation"

\* C8: after the routine has finished, the frames carrying a location keyframe
\* and the frames carrying a rotation keyframe are both exactly the sampled
\* frames of the range, one key per frame, and no keyframe of the animation data
\* the camera had before the call is left.
C8_KeyframePairs ==
    Finished =>
        /\ KeyFrames(camera, "location") = Sampled
        /\ KeyFrames(camera, "rotation_euler") = Sampled
        /\ Cardinality(Keys(camera, "location")) = Cardinality(Sampled)
        /\ Cardinality(Keys(camera, "rotation_euler")) = Cardinality(Sampled)
        /\ Keys(camera, "location") \cap Keys(camera_before, "location") = {}
        /\ Keys(camera, "rotation_euler") \cap Keys(camera_before, "rotation_euler") = {}

C8_Witness ==
    /\ Finished /\ pc = "done"
    /\ Keys(camera_before, "location") # {}
    /\ 5 \in KeyFrames(camera, "location")
    /\ 3 \notin KeyFrames(camera, "location")

\* C9: the count of the final "Baked N keyframes" message equals the number of
\* frames at which the loop inserted keyframes, for every frame_start and
\* frame_end.
C9_ReportedCount ==
    Finished => Val(reported) = Cardinality(KeyFrames(camera, "location"))

\* C10: an import-pointcloud run that has passed its up-front checks reaches the
\* save step and the completion report without an error, whatever the imports
\* yield; and the bounding-box arity check never fails once the scene has been
\* modified.
C10_CloudCompletes ==
    /\ (entry = "pointcloud" /\ pc = "done"
          /\ failed_at \notin { "args", "collect", "rotation", "append" }) =>
            (saved /\ outcome = "ok")
    /\ ~(failed_at = "bounding_box" /\ scene_modified)

====
